---- MODULE Spec2Model ----
(***************************************************************************)
(* Analysis_Demo_(Interactive).py: the run() function of the script,       *)
(* statement by statement, against the SNT host it drives.  The script's   *)
(* state is its position and its local variables; the host's state is the  *)
(* UI, the Path Manager (loaded paths, selection), the paths themselves    *)
(* and the reconstruction viewer.                                          *)
(*                                                                         *)
(* Node positions are taken on one axis (collinear nodes), so that an      *)
(* inter-node distance is the absolute difference of two coordinates.      *)
(***************************************************************************)
EXTENDS Integers, Sequences, FiniteSets, TLC

\* ------------------------------------------------------------------ bounds
\* longest path the host may hold before the script starts (in nodes)
MaxLen == 3
\* most paths the host may hold before the script starts
MaxPre == 1

\* coordinates of the nodes of the paths loaded before the script starts
Coords == {0, 3, 12}

\* ------------------------------------------------------------- constants
\* tree.downSample(10)
TargetSpacing == 10

VARIABLES
    pc,          \* position of run(): the line about to execute
    uiRunning,   \* snt.getUI() is not None
    uiState,     \* state of the host UI
    paths,       \* every Path object: index = identity
    loaded,      \* Path Manager: the loaded paths
    selected,    \* Path Manager: the selected paths
    demo_tree,   \* local: first snt.demoTree()
    analyzer,    \* local: paths behind the TreeAnalyzer
    stats,       \* local: paths behind the TreeStatistics
    tree,        \* local: the Tree of line 79, then of line 93
    minBefore,   \* summary_stats.getMin() of line 75
    minAfter,    \* summary_stats.getMin() of line 89
    viewer,      \* paths the reconstruction viewer renders
    viewerShown, \* the viewer window is showing
    dialogs,     \* ui.showDialog calls
    calls,       \* host calls made so far, in order
    scopeBefore, \* paths behind the summary_stats of line 73
    before,      \* the paths as they were when tree.downSample was called
    host0        \* the host as it was when run() started

vars == <<pc, uiRunning, uiState, paths, loaded, selected, demo_tree, analyzer,
          stats, tree, minBefore, minAfter, viewer, viewerShown, dialogs,
          calls, scopeBefore, before, host0>>

\* ----------------------------------------------------------------- helpers
Abs(x) == IF x < 0 THEN -x ELSE x

SetMin(S) == CHOOSE m \in S : \A y \in S : m <= y

\* a node: its position and whether another path branches off it
Node(x, bp) == [x |-> x, bp |-> bp]

\* a Tree reference held by the script: None, or a collection of paths
NoneTree == [none |-> TRUE, ids |-> {}, label |-> ""]

TreeOf(ids) == [none |-> FALSE, ids |-> ids, label |-> ""]

\* Jython truth of a reference: None is false
Truthy(t) == ~t.none

\* the bundled demo reconstruction: a main path and a branch off its node 3
DemoTree ==
    << <<Node(0, FALSE), Node(4, FALSE), Node(8, TRUE), Node(12, FALSE),
         Node(24, FALSE)>>,
       <<Node(8, FALSE), Node(12, FALSE), Node(20, FALSE)>> >>

\* the Path objects of a tree read from the demo file, as tree number k
DemoPaths(k) ==
    [i \in 1..Len(DemoTree) |->
        [nodes |-> DemoTree[i], color |-> "none", tree |-> k]]

\* the node positions a path loaded before the script may have
Shapes ==
    UNION {
        {s \in [1..n -> Coords] : \A i \in 1..(n-1) : s[i] # s[i+1]}
        : n \in 2..MaxLen}

\* path c starts on node j of path p, a node between the ends of p
JoinsAt(shape, c, p, j) ==
    /\ j \in 2..(Len(shape[p]) - 1)
    /\ shape[p][j] = shape[c][1]

\* parent[c] = 0: path c starts a tree of its own; otherwise it branches off
\* a node of the earlier path parent[c]
Parents(shape) ==
    {parent \in [DOMAIN shape -> 0..Len(shape)] :
        \A c \in DOMAIN shape :
            /\ parent[c] < c
            /\ parent[c] # 0 =>
                 \E j \in DOMAIN shape[parent[c]] : JoinsAt(shape, c, parent[c], j)}

\* the Path objects the host holds before the script starts: a node is a
\* branch point when a child path starts on it
HostPaths(shape, parent) ==
    [p \in DOMAIN shape |->
        [nodes |-> [j \in DOMAIN shape[p] |->
                      Node(shape[p][j],
                           \E c \in DOMAIN shape :
                               parent[c] = p /\ JoinsAt(shape, c, p, j))],
         color |-> "none",
         tree |-> 0]]

\* downsampling that forgets the branch points
IsFixed_EndsOnly(nodes, i) == i = 1 \/ i = Len(nodes)

\* a node downsampling must keep: the ends of the path and its branch points
IsFixed(nodes, i) == i = 1 \/ i = Len(nodes) \/ nodes[i].bp

\* Path.downsample: walk the path from node i, `kept` being the nodes kept so
\* far; a shaft node stays only if it is TargetSpacing away from the last kept
RECURSIVE DownFrom(_, _, _, _)
DownFrom(nodes, i, kept, d) ==
    IF i > Len(nodes) THEN kept
    ELSE IF IsFixed(nodes, i) \/ Abs(nodes[i].x - kept[Len(kept)].x) >= d
         THEN DownFrom(nodes, i + 1, Append(kept, nodes[i]), d)
         ELSE DownFrom(nodes, i + 1, kept, d)

DownSample(nodes, d) == DownFrom(nodes, 2, <<nodes[1]>>, d)

\* the metric without the absolute value
InterNode_Signed(nodes) ==
    {nodes[i+1].x - nodes[i].x : i \in 1..(Len(nodes) - 1)}

\* TreeStatistics.INTER_NODE_DISTANCE: the distances between consecutive nodes
InterNode(nodes) ==
    {Abs(nodes[i].x - nodes[i+1].x) : i \in 1..(Len(nodes) - 1)}

\* getSummaryStats(metric).getMin() over a collection of paths
MinInterNode(ps, ids) ==
    LET D == UNION {InterNode(ps[i].nodes) : i \in ids}
    IN  IF D = {} THEN -1 ELSE SetMin(D)

\* SNTService.getTree(selectedPathsOnly) and the factories built on it
GetPaths(selectedOnly) == IF selectedOnly THEN selected ELSE loaded

\* SNTService.loadTree(tree): the tree's paths join the Path Manager
LoadTree(ids) == loaded \cup ids

\* the reconstruction viewer of the running instance renders what the Path
\* Manager holds
ViewerContents == loaded

\* Tree.downSample(d): every path of the tree, in place
DownSampleTree(ps, ids, d) ==
    [i \in DOMAIN ps |->
        IF i \in ids
        THEN [ps[i] EXCEPT !.nodes = DownSample(ps[i].nodes, d)]
        ELSE ps[i]]

\* Tree.setColor: every path of the tree takes the colour
SetColor(ps, ids, c) ==
    [i \in DOMAIN ps |-> IF i \in ids THEN [ps[i] EXCEPT !.color = c] ELSE ps[i]]

\* ------------------------------------------------------------------- Init
Init ==
    /\ pc = "L37"
    /\ uiRunning \in BOOLEAN
    /\ uiState \in (IF uiRunning THEN {"READY", "TRACING_PAUSED"} ELSE {"NONE"})
    /\ \E n \in 0..MaxPre :
         /\ \E shape \in [1..n -> Shapes] :
              \E parent \in Parents(shape) : paths = HostPaths(shape, parent)
         /\ loaded = 1..n
         /\ selected \in SUBSET (1..n)
    /\ demo_tree = NoneTree
    /\ analyzer = {}
    /\ stats = {}
    /\ tree = NoneTree
    /\ minBefore = -1
    /\ minAfter = -1
    /\ viewer = {}
    /\ viewerShown = FALSE
    /\ dialogs = 0
    /\ calls = <<>>
    /\ scopeBefore = {}
    /\ before = <<>>
    /\ host0 = [loaded |-> loaded, uiRunning |-> uiRunning, uiState |-> uiState]

\* --------------------------------------------------------------- the script
Call(names) == calls' = calls \o names

\* line 37 as an exit: run() returns when the UI is not running
StepCheckUI_Return ==
    /\ pc = "L37"
    /\ pc' = IF uiRunning THEN "L42" ELSE "returned"
    /\ Call(<<"getUI">>)
    /\ UNCHANGED <<uiRunning, uiState, paths, loaded, selected, demo_tree,
                   analyzer, stats, tree, minBefore, minAfter, viewer,
                   viewerShown, dialogs, scopeBefore, before, host0>>

\* line 37: if not snt.getUI()
StepCheckUI ==
    /\ pc = "L37"
    /\ pc' = IF uiRunning THEN "L42" ELSE "L38"
    /\ Call(<<"getUI">>)
    /\ UNCHANGED <<uiRunning, uiState, paths, loaded, selected, demo_tree,
                   analyzer, stats, tree, minBefore, minAfter, viewer,
                   viewerShown, dialogs, scopeBefore, before, host0>>

\* line 38: snt.initialize(True)
StepInitialize ==
    /\ pc = "L38"
    /\ uiRunning' = TRUE
    /\ uiState' = "READY"
    /\ pc' = "L42"
    /\ Call(<<"initialize">>)
    /\ UNCHANGED <<paths, loaded, selected, demo_tree, analyzer, stats, tree,
                   minBefore, minAfter, viewer, viewerShown, dialogs,
                   scopeBefore, before, host0>>

\* snt.demoTree(): the bundled file read into new Path objects (tree number
\* k), or None when it cannot be read
DemoTreeCall(k, ok, ref) ==
    IF ok
    THEN /\ paths' = paths \o DemoPaths(k)
         /\ ref = TreeOf((Len(paths) + 1)..(Len(paths) + Len(DemoTree)))
    ELSE /\ paths' = paths
         /\ ref = NoneTree

\* line 42: demo_tree = snt.demoTree()
StepDemoTree ==
    /\ pc = "L42"
    /\ \E ok \in BOOLEAN : DemoTreeCall(1, ok, demo_tree')
    /\ pc' = "L43"
    /\ Call(<<"demoTree">>)
    /\ UNCHANGED <<uiRunning, uiState, loaded, selected, analyzer, stats, tree,
                   minBefore, minAfter, viewer, viewerShown, dialogs,
                   scopeBefore, before, host0>>

\* lines 43-44 without the return of line 45
StepCheckDemo_NoReturn ==
    /\ pc = "L43"
    /\ IF ~Truthy(demo_tree)
       THEN /\ dialogs' = dialogs + 1
            /\ Call(<<"showDialog">>)
       ELSE UNCHANGED <<dialogs, calls>>
    /\ pc' = "L48"
    /\ UNCHANGED <<uiRunning, uiState, paths, loaded, selected, demo_tree,
                   analyzer, stats, tree, minBefore, minAfter, viewer,
                   viewerShown, scopeBefore, before, host0>>

\* lines 43-45: if not demo_tree: ui.showDialog(...); return
StepCheckDemo ==
    /\ pc = "L43"
    /\ IF ~Truthy(demo_tree)
       THEN /\ dialogs' = dialogs + 1
            /\ Call(<<"showDialog">>)
            /\ pc' = "returned"
       ELSE /\ pc' = "L48"
            /\ UNCHANGED <<dialogs, calls>>
    /\ UNCHANGED <<uiRunning, uiState, paths, loaded, selected, demo_tree,
                   analyzer, stats, tree, minBefore, minAfter, viewer,
                   viewerShown, scopeBefore, before, host0>>

\* line 48 left out
StepPause_Skipped ==
    /\ pc = "L48"
    /\ pc' = "L49"
    /\ UNCHANGED <<uiRunning, uiState, paths, loaded, selected, demo_tree,
                   analyzer, stats, tree, minBefore, minAfter, viewer,
                   viewerShown, dialogs, calls, scopeBefore, before, host0>>

\* line 48: snt.getUI().changeState(SNTUI.TRACING_PAUSED)
StepPause ==
    /\ pc = "L48"
    /\ uiState' = "TRACING_PAUSED"
    /\ pc' = "L49"
    /\ Call(<<"getUI", "changeState">>)
    /\ UNCHANGED <<uiRunning, paths, loaded, selected, demo_tree, analyzer,
                   stats, tree, minBefore, minAfter, viewer, viewerShown,
                   dialogs, scopeBefore, before, host0>>

\* line 49: snt.loadTree(demo_tree)
StepLoadDemo ==
    /\ pc = "L49"
    /\ loaded' = LoadTree(demo_tree.ids)
    /\ pc' = "L62"
    /\ Call(<<"loadTree">>)
    /\ UNCHANGED <<uiRunning, uiState, paths, selected, demo_tree, analyzer,
                   stats, tree, minBefore, minAfter, viewer, viewerShown,
                   dialogs, scopeBefore, before, host0>>

\* lines 62-67: analyzer = snt.getAnalyzer(False); stats = snt.getStatistics(False)
\* and the summary table of the analyzer
StepGetStats ==
    /\ pc = "L62"
    /\ analyzer' = GetPaths(FALSE)
    /\ stats' = GetPaths(FALSE)
    /\ pc' = "L73"
    /\ Call(<<"getAnalyzer", "getStatistics", "summarize",
              "updateAndDisplayTable">>)
    /\ UNCHANGED <<uiRunning, uiState, paths, loaded, selected, demo_tree,
                   tree, minBefore, minAfter, viewer, viewerShown, dialogs,
                   scopeBefore, before, host0>>

\* lines 72-75: summary_stats = stats.getSummaryStats(metric); the histogram;
\* print("Smallest inter-node distance: %d" % summary_stats.getMin())
StepMinBefore ==
    /\ pc = "L73"
    /\ minBefore' = MinInterNode(paths, stats)
    /\ scopeBefore' = stats
    /\ pc' = "L79"
    /\ Call(<<"getSummaryStats", "getHistogram">>)
    /\ UNCHANGED <<uiRunning, uiState, paths, loaded, selected, demo_tree,
                   analyzer, stats, tree, minAfter, viewer, viewerShown,
                   dialogs, before, host0>>

\* line 79 with the toggle set: tree = snt.getTree(True)
StepGetTree_Selected ==
    /\ pc = "L79"
    /\ tree' = TreeOf(GetPaths(TRUE))
    /\ pc' = "L80"
    /\ Call(<<"getTree">>)
    /\ UNCHANGED <<uiRunning, uiState, paths, loaded, selected, demo_tree,
                   analyzer, stats, minBefore, minAfter, viewer, viewerShown,
                   dialogs, scopeBefore, before, host0>>

\* line 79: tree = snt.getTree(False)
StepGetTree ==
    /\ pc = "L79"
    /\ tree' = TreeOf(GetPaths(FALSE))
    /\ pc' = "L80"
    /\ Call(<<"getTree">>)
    /\ UNCHANGED <<uiRunning, uiState, paths, loaded, selected, demo_tree,
                   analyzer, stats, minBefore, minAfter, viewer, viewerShown,
                   dialogs, scopeBefore, before, host0>>

\* line 80: tree.downSample(10), in place on the tree's paths
StepDownSample ==
    /\ pc = "L80"
    /\ before' = paths
    /\ paths' = DownSampleTree(paths, tree.ids, TargetSpacing)
    /\ pc' = "L81"
    /\ Call(<<"downSample">>)
    /\ UNCHANGED <<uiRunning, uiState, loaded, selected, demo_tree, analyzer,
                   stats, tree, minBefore, minAfter, viewer, viewerShown,
                   dialogs, scopeBefore, host0>>

\* line 81: tree.setLabel("10um downsampled")
StepSetLabel ==
    /\ pc = "L81"
    /\ tree' = [tree EXCEPT !.label = "10um downsampled"]
    /\ pc' = "L84"
    /\ Call(<<"setLabel">>)
    /\ UNCHANGED <<uiRunning, uiState, paths, loaded, selected, demo_tree,
                   analyzer, stats, minBefore, minAfter, viewer, viewerShown,
                   dialogs, scopeBefore, before, host0>>

\* lines 84-89: stats = TreeStatistics(tree); summary_stats =
\* stats.getSummaryStats(metric); the histogram and the analyzer's table;
\* print("After downsampling: %d" % summary_stats.getMin())
StepMinAfter ==
    /\ pc = "L84"
    /\ stats' = tree.ids
    /\ minAfter' = MinInterNode(paths, tree.ids)
    /\ pc' = "L92"
    /\ Call(<<"TreeStatistics", "getSummaryStats", "getHistogram", "summarize",
              "updateAndDisplayTable">>)
    /\ UNCHANGED <<uiRunning, uiState, paths, loaded, selected, demo_tree,
                   analyzer, tree, minBefore, viewer, viewerShown, dialogs,
                   scopeBefore, before, host0>>

\* line 92: tree.setColor("cyan")
StepSetCyan ==
    /\ pc = "L92"
    /\ paths' = SetColor(paths, tree.ids, "cyan")
    /\ pc' = "L93"
    /\ Call(<<"setColor">>)
    /\ UNCHANGED <<uiRunning, uiState, loaded, selected, demo_tree, analyzer,
                   stats, tree, minBefore, minAfter, viewer, viewerShown,
                   dialogs, scopeBefore, before, host0>>

\* line 93: tree = snt.demoTree()
StepDemoTreeAgain ==
    /\ pc = "L93"
    /\ \E ok \in BOOLEAN : DemoTreeCall(2, ok, tree')
    /\ pc' = "L94"
    /\ Call(<<"demoTree">>)
    /\ UNCHANGED <<uiRunning, uiState, loaded, selected, demo_tree, analyzer,
                   stats, minBefore, minAfter, viewer, viewerShown, dialogs,
                   scopeBefore, before, host0>>

\* line 94 with the colour of line 92
StepSetYellow_Cyan ==
    /\ pc = "L94"
    /\ IF Truthy(tree)
       THEN /\ paths' = SetColor(paths, tree.ids, "cyan")
            /\ pc' = "L95"
            /\ Call(<<"setColor">>)
       ELSE /\ pc' = "faulted"
            /\ UNCHANGED <<paths, calls>>
    /\ UNCHANGED <<uiRunning, uiState, loaded, selected, demo_tree, analyzer,
                   stats, tree, minBefore, minAfter, viewer, viewerShown,
                   dialogs, scopeBefore, before, host0>>

\* line 94: tree.setColor("yellow"); on None the attribute lookup raises and
\* run() ends there
StepSetYellow ==
    /\ pc = "L94"
    /\ IF Truthy(tree)
       THEN /\ paths' = SetColor(paths, tree.ids, "yellow")
            /\ pc' = "L95"
            /\ Call(<<"setColor">>)
       ELSE /\ pc' = "faulted"
            /\ UNCHANGED <<paths, calls>>
    /\ UNCHANGED <<uiRunning, uiState, loaded, selected, demo_tree, analyzer,
                   stats, tree, minBefore, minAfter, viewer, viewerShown,
                   dialogs, scopeBefore, before, host0>>

\* line 95 with the downsampling applied to the fresh copy as well
StepLoadFresh_Downsampled ==
    /\ pc = "L95"
    /\ paths' = DownSampleTree(paths, tree.ids, TargetSpacing)
    /\ loaded' = LoadTree(tree.ids)
    /\ pc' = "L96"
    /\ Call(<<"downSample", "loadTree">>)
    /\ UNCHANGED <<uiRunning, uiState, selected, demo_tree, analyzer,
                   stats, tree, minBefore, minAfter, viewer, viewerShown,
                   dialogs, scopeBefore, before, host0>>

\* line 95: snt.loadTree(tree)
StepLoadFresh ==
    /\ pc = "L95"
    /\ loaded' = LoadTree(tree.ids)
    /\ pc' = "L96"
    /\ Call(<<"loadTree">>)
    /\ UNCHANGED <<uiRunning, uiState, paths, selected, demo_tree, analyzer,
                   stats, tree, minBefore, minAfter, viewer, viewerShown,
                   dialogs, scopeBefore, before, host0>>

\* line 96: snt.getRecViewer().show(): the viewer of the running instance,
\* which renders what the Path Manager holds
StepShowViewer ==
    /\ pc = "L96"
    /\ viewerShown' = TRUE
    /\ viewer' = ViewerContents
    /\ pc' = "L97"
    /\ Call(<<"getRecViewer", "show">>)
    /\ UNCHANGED <<uiRunning, uiState, paths, loaded, selected, demo_tree,
                   analyzer, stats, tree, minBefore, minAfter, dialogs,
                   scopeBefore, before, host0>>

\* line 97 followed by a request to resume tracing
StepUpdateViewers_Resume ==
    /\ pc = "L97"
    /\ viewer' = ViewerContents
    /\ uiState' = "READY"
    /\ pc' = "done"
    /\ Call(<<"getPlugin", "updateAllViewers", "getUI", "changeState">>)
    /\ UNCHANGED <<uiRunning, paths, loaded, selected, demo_tree,
                   analyzer, stats, tree, minBefore, minAfter, viewerShown,
                   dialogs, scopeBefore, before, host0>>

\* line 97: snt.getPlugin().updateAllViewers(); run() ends
StepUpdateViewers ==
    /\ pc = "L97"
    /\ viewer' = ViewerContents
    /\ pc' = "done"
    /\ Call(<<"getPlugin", "updateAllViewers">>)
    /\ UNCHANGED <<uiRunning, uiState, paths, loaded, selected, demo_tree,
                   analyzer, stats, tree, minBefore, minAfter, viewerShown,
                   dialogs, scopeBefore, before, host0>>

\* the lines whose host call may raise; nothing in run() catches it
HostCallLines == {"L37", "L38", "L42", "L48", "L49", "L62", "L73", "L79", "L80",
                  "L81", "L84", "L92", "L93", "L95", "L96", "L97"}

\* a host call raises: the exception leaves run() and the script ends
HostFault ==
    /\ pc \in HostCallLines
    /\ pc' = "faulted"
    /\ UNCHANGED <<uiRunning, uiState, paths, loaded, selected, demo_tree,
                   analyzer, stats, tree, minBefore, minAfter, viewer,
                   viewerShown, dialogs, calls, scopeBefore, before, host0>>

Next ==
    \/ StepCheckUI
    \/ StepInitialize
    \/ StepDemoTree
    \/ StepCheckDemo
    \/ StepPause
    \/ StepLoadDemo
    \/ StepGetStats
    \/ StepMinBefore
    \/ StepGetTree
    \/ StepDownSample
    \/ StepSetLabel
    \/ StepMinAfter
    \/ StepSetCyan
    \/ StepDemoTreeAgain
    \/ StepSetYellow
    \/ StepLoadFresh
    \/ StepShowViewer
    \/ StepUpdateViewers
    \/ HostFault

Spec == Init /\ [][Next]_vars

\* ------------------------------------------------------------ properties
Called(name) == \E i \in DOMAIN calls : calls[i] = name

Count(name) == Cardinality({i \in DOMAIN calls : calls[i] = name})

\* position in `calls` of the n-th call of `name`
Nth(name, n) ==
    CHOOSE i \in DOMAIN calls :
        /\ calls[i] = name
        /\ Cardinality({j \in 1..i : calls[j] = name}) = n

\* the host calls of the steps after the demo-data guard of lines 43-45
LaterCalls == {"changeState", "loadTree", "getAnalyzer", "getStatistics",
               "summarize", "updateAndDisplayTable", "getSummaryStats",
               "getHistogram", "getTree", "downSample", "setLabel",
               "TreeStatistics", "setColor", "getRecViewer", "show",
               "getPlugin", "updateAllViewers"}

\* the first retrieval (line 42) returned None and line 43 has been passed
FirstRetrievalNull == Count("demoTree") = 1 /\ demo_tree.none /\ pc # "L43"

\* the second retrieval (line 93) returned None and line 94 has been passed
SecondRetrievalNull == Count("demoTree") = 2 /\ tree.none /\ pc # "L94"

\* the UI state the host had when the first retrieval was made
UiStateAtRetrieval == IF host0.uiRunning THEN host0.uiState ELSE "READY"

\* the script came to its end, by return, by the last line or by an exception
Ended == pc \in {"returned", "done", "faulted"}

\* the trees the viewer renders, by the tree each rendered path belongs to
Renderings == {paths[i].tree : i \in viewer}

\* the colours one rendered tree is drawn in
RenderingColors(t) == {paths[i].color : i \in {j \in viewer : paths[j].tree = t}}

\* the nodes of a path advance in one direction along the axis
Monotone(nodes) ==
    \/ \A i \in 1..(Len(nodes) - 1) : nodes[i].x < nodes[i+1].x
    \/ \A i \in 1..(Len(nodes) - 1) : nodes[i].x > nodes[i+1].x

\* node i of a path is a tip (an end of the path) or a branch point
IsTipOrBranch(nodes, i) == i \in {1, Len(nodes)} \/ nodes[i].bp

\* the tips and branch points of a path, in path order
RECURSIVE FixedFrom(_, _)
FixedFrom(nodes, i) ==
    IF i > Len(nodes) THEN <<>>
    ELSE IF IsTipOrBranch(nodes, i)
         THEN <<nodes[i]>> \o FixedFrom(nodes, i + 1)
         ELSE FixedFrom(nodes, i + 1)

\* positions of the tips and branch points of a collection of paths
EndPoints(ps, ids) ==
    UNION {{ps[i].nodes[j].x : j \in {k \in 1..Len(ps[i].nodes) :
                                        IsTipOrBranch(ps[i].nodes, k)}} : i \in ids}

\* s is t with some elements left out
RECURSIVE IsSubSeq(_, _)
IsSubSeq(s, t) ==
    IF s = <<>> THEN TRUE
    ELSE IF t = <<>> THEN FALSE
    ELSE IF s[1] = t[1] THEN IsSubSeq(Tail(s), Tail(t))
    ELSE IsSubSeq(s, Tail(t))

\* tree.downSample(10) has been applied
Downsampled == before # <<>>

\* C1: when the first snt.demoTree() returns None the script shows the error
\* dialog exactly once and returns: no host call follows the dialog, and the
\* host's loaded paths and UI state are those it had before the dialog.
C1_FirstNullDialogOnly ==
    /\ FirstRetrievalNull =>
         /\ pc = "returned"
         /\ dialogs = 1
    /\ dialogs >= 1 =>
         /\ pc = "returned"
         /\ dialogs = 1
         /\ calls[Len(calls)] = "showDialog"
         /\ Count("showDialog") = 1
         /\ \A i \in DOMAIN calls : calls[i] \notin LaterCalls
         /\ loaded = host0.loaded
         /\ uiState = UiStateAtRetrieval

C1_Witness ==
    /\ pc = "returned"
    /\ dialogs = 1
    /\ demo_tree.none
    /\ host0.loaded # {}
    /\ host0.uiState = "READY"

\* C2: every snt.demoTree() that returns None, the second one of line 93
\* included, leads to the error dialog and to termination without further
\* host calls.
C2_EveryNullRetrievalDialog ==
    (FirstRetrievalNull \/ SecondRetrievalNull) =>
        /\ Ended
        /\ dialogs = 1
        /\ calls[Len(calls)] = "showDialog"

\* C3 as stated: at the end of a complete run the viewer holds exactly two
\* tree renderings, one cyan (the downsampled tree) and one yellow (the fresh
\* copy), whatever the host held at the start.
C3_ExactlyTwoRenderings ==
    pc = "done" =>
        /\ Cardinality(Renderings) = 2
        /\ \E t, u \in Renderings :
             /\ RenderingColors(t) = {"cyan"}
             /\ RenderingColors(u) = {"yellow"}

\* C3 amended: at the end of a complete run the viewer renders every loaded
\* path, the fresh copy of line 93 in yellow and everything loaded before it
\* (the first demo copy and whatever the host held at the start, all
\* downsampled) in cyan; the renderings are exactly two when the host held
\* no paths at the start.
C3_TwoColorsAmended ==
    pc = "done" =>
        /\ viewerShown
        /\ viewer = host0.loaded \cup demo_tree.ids \cup tree.ids
        /\ \A i \in tree.ids : paths[i].color = "yellow" /\ paths[i].tree = 2
        /\ \A i \in host0.loaded \cup demo_tree.ids : paths[i].color = "cyan"
        /\ tree.ids # {}
        /\ demo_tree.ids # {}
        /\ tree.ids \cap (host0.loaded \cup demo_tree.ids) = {}
        /\ host0.loaded = {} =>
             /\ Cardinality(Renderings) = 2
             /\ RenderingColors(1) = {"cyan"}
             /\ RenderingColors(2) = {"yellow"}

C3_Witness ==
    /\ pc = "done"
    /\ host0.loaded # {}
    /\ Cardinality(Renderings) = 3

C5_EndPointsPreserved ==
    Downsampled =>
        /\ DOMAIN before \subseteq DOMAIN paths
        /\ \A i \in DOMAIN before :
             /\ FixedFrom(paths[i].nodes, 1) = FixedFrom(before[i].nodes, 1)
             /\ IsSubSeq(paths[i].nodes, before[i].nodes)
        /\ EndPoints(paths, DOMAIN before) = EndPoints(before, DOMAIN before)

C5_Witness ==
    /\ pc = "L81"
    /\ \E i \in tree.ids :
         /\ Len(paths[i].nodes) < Len(before[i].nodes)
         /\ \E j \in 2..(Len(paths[i].nodes) - 1) : paths[i].nodes[j].bp

\* C6: with the toggle False, as the script passes it at lines 62, 63 and 79,
\* the analyzer, the statistics and the tree cover all loaded paths whatever
\* is selected (True would give the selected paths only), so the statistic
\* before and the statistic after are computed over the same paths.
C6_SameScopeBeforeAfter ==
    /\ pc \in {"L80", "L81", "L84"} => tree.ids = scopeBefore
    /\ scopeBefore # {} =>
         /\ scopeBefore = host0.loaded \cup demo_tree.ids
         /\ analyzer = scopeBefore
         /\ selected \subseteq host0.loaded
    /\ minAfter # -1 =>
         /\ stats = scopeBefore
         /\ stats # selected

C6_Witness ==
    /\ minAfter # -1
    /\ selected # {}
    /\ selected # scopeBefore
    /\ stats = scopeBefore

\* C7: every snt.loadTree of the script comes after the request to pause
\* tracing: no path is loaded before changeState(SNTUI.TRACING_PAUSED).
C7_PauseBeforeLoad ==
    /\ \A i \in DOMAIN calls :
         calls[i] = "loadTree" => \E j \in 1..(i - 1) : calls[j] = "changeState"
    /\ loaded # host0.loaded => uiState = "TRACING_PAUSED"

C7_Witness ==
    /\ pc = "done"
    /\ Count("loadTree") = 2
    /\ host0.uiState # "TRACING_PAUSED"

\* C8 as stated: when either guard fires (UI not running; demo data missing)
\* the script exits early without executing the remaining steps.
C8_EitherGuardExits ==
    ((~host0.uiRunning /\ pc # "L37") \/ FirstRetrievalNull) =>
        \A i \in DOMAIN calls : calls[i] \notin LaterCalls

\* C8 amended: of the two guards only the demo-data guard exits early (dialog,
\* return, none of the remaining steps); the UI guard, when it fires, calls
\* snt.initialize(True) and the script goes on with the demo retrieval.
C8_OnlyDemoGuardExits ==
    /\ pc = "returned" =>
         /\ FirstRetrievalNull
         /\ dialogs = 1
         /\ \A i \in DOMAIN calls : calls[i] \notin LaterCalls
    /\ (~host0.uiRunning /\ Called("demoTree")) =>
         /\ Len(calls) >= 2
         /\ calls[2] = "initialize"
         /\ uiRunning
    /\ host0.uiRunning => ~Called("initialize")
    /\ (pc = "done" /\ ~host0.uiRunning) => Called("initialize")

C8_Witness ==
    /\ pc = "done"
    /\ ~host0.uiRunning
    /\ Called("initialize")
    /\ Called("downSample")

\* C9: a complete run downsamples exactly once, after the first statistic and
\* before the second; the fresh copy of line 93 is retrieved after the
\* downsampling and is never downsampled.
C9_DownsampleOnce ==
    /\ Count("downSample") <= 1
    /\ minAfter # -1 =>
         /\ Count("downSample") = 1
         /\ Nth("getSummaryStats", 1) < Nth("downSample", 1)
         /\ Nth("downSample", 1) < Nth("TreeStatistics", 1)
         /\ minBefore = MinInterNode(before, scopeBefore)
         /\ minAfter = MinInterNode(DownSampleTree(before, scopeBefore,
                                                   TargetSpacing), scopeBefore)
    /\ Count("demoTree") = 2 => Nth("downSample", 1) < Nth("demoTree", 2)
    /\ pc = "done" =>
         /\ Count("downSample") = 1
         /\ \A i \in DOMAIN before :
              paths[i].nodes = DownSample(before[i].nodes, TargetSpacing)
         /\ [j \in 1..Len(DemoTree) |-> paths[Len(before) + j].nodes] = DemoTree
         /\ tree.ids = (Len(before) + 1)..(Len(before) + Len(DemoTree))

C9_Witness ==
    /\ pc = "done"
    /\ \E i \in demo_tree.ids : paths[i].nodes # DemoTree[1] /\ paths[i].nodes # DemoTree[2]
    /\ minAfter > minBefore

\* C10: the script requests one UI state transition per run and none out of
\* the paused state: once changeState(SNTUI.TRACING_PAUSED) is issued the UI
\* is paused in every later state, the final one and faulted ones included.
C10_StaysPaused ==
    /\ Count("changeState") <= 1
    /\ Called("changeState") => uiState = "TRACING_PAUSED"
    /\ pc = "done" => Count("changeState") = 1

C10_Witness ==
    /\ pc = "faulted"
    /\ Called("loadTree")
    /\ host0.uiState = "READY"
    /\ uiState = "TRACING_PAUSED"

====
